---- MODULE Spec2Model ----
(***************************************************************************)
(* Healthy Eating Helper: the rules pipeline of the analysis backend       *)
(* (analyze, lookup_nutrition, health_score) and the live re-scoring of    *)
(* the result card (ResultCard: servingAdjustments, updateServing,         *)
(* adjustedNutrition, adjustedHealthScore).                                *)
(*                                                                         *)
(* Numbers.  The program computes in floating point; the model computes    *)
(* the same expressions exactly, in fixed point:                           *)
(*   - a confidence is an integer number of 1/10000,                       *)
(*   - a serving multiplier is an integer number of 1/100,                 *)
(*   - a per-serving nutrition field is an integer (grams, kcal),          *)
(*   - an adjusted (client) nutrition total is an integer number of 1/100, *)
(*   - the server's raw score is an integer number of 1/100 and the        *)
(*     client's raw score an integer number of 1/10000.                    *)
(* Strings are sequences of one-character strings, so that lower-casing    *)
(* and substring search are computed and not assumed.                      *)
(***************************************************************************)
EXTENDS Integers, Sequences, FiniteSets, TLC

VARIABLES
    phase,               \* page.tsx: "idle" | "pending" | "answered" | "shown" | "failed"
    preds,               \* clf(img): what the classifier returns for the selected file
    calls,               \* the requests mutationFn has made for the file: whom each went
                         \* to and how it ended
    response,            \* the backend's answer to POST /analyze, <<>> while there is none
    result,              \* page.tsx `result` state: <<>> (null) or <<AnalysisResult>>
    servingAdjustments,  \* ResultCard state: item index -> multiplier (1/100)
    view,                \* what ResultCard has rendered: <<>> or <<the rendered values>>
    replay,              \* observer: <<>> or <<one earlier (multipliers, view) pair>>
    queue,               \* React: the updaters of servingAdjustments waiting for the next render
    writes,              \* observer: the last value written to each index, and the size of
                         \* the batch the last render applied
    earlier,             \* observer: a result this page showed before had a multiplier written
    proxy,               \* route.ts POST: <<>> or <<the request being handled>>
    scoring,             \* <<>> or <<nutrition totals handed to the score and tip rules>>
    aliasing,            \* <<>> or <<an alias lookup of the canonical resolver>>
    resolving            \* <<>> or <<two raw labels and the items the backend makes of them>>

vars == <<phase, preds, calls, response, result, servingAdjustments, view, replay,
          queue, writes, earlier, proxy, scoring, aliasing, resolving>>

\* the state of the result card's update queue, and what the observer keeps of it
batch == <<queue, writes, earlier>>

\* the state outside the page
apart == <<proxy, scoring, aliasing, resolving>>

\* the state of the canonical resolver
naming == <<aliasing, resolving>>

\* the state of the page and its result card
page == <<phase, preds, calls, response, result, servingAdjustments, view, replay, batch>>

-----------------------------------------------------------------------------
(* Bounds of the model *)

\* longest list the classifier returns in the model
MaxPreds == 4

-----------------------------------------------------------------------------
(* Strings *)

UpperAlpha == <<"A","B","C","D","E","F","G","H","I","J","K","L","M",
                "N","O","P","Q","R","S","T","U","V","W","X","Y","Z">>
LowerAlpha == <<"a","b","c","d","e","f","g","h","i","j","k","l","m",
                "n","o","p","q","r","s","t","u","v","w","x","y","z">>

\* one character of str.lower() / String.prototype.toLowerCase()
LowerChar(c) ==
    IF \E k \in 1..Len(UpperAlpha) : UpperAlpha[k] = c
    THEN LowerAlpha[CHOOSE k \in 1..Len(UpperAlpha) : UpperAlpha[k] = c]
    ELSE c

\* str.lower() / toLowerCase()
Lower(s) == [k \in 1..Len(s) |-> LowerChar(s[k])]

\* String.prototype.includes
Includes(s, t) ==
    \E k \in 1..(Len(s) - Len(t) + 1) : SubSeq(s, k, k + Len(t) - 1) = t

pizza       == <<"p","i","z","z","a">>
salad       == <<"s","a","l","a","d">>
soda        == <<"s","o","d","a">>
cola        == <<"c","o","l","a">>
fries       == <<"f","r","i","e","s">>
frenchFries == <<"f","r","e","n","c","h"," ","f","r","i","e","s">>
chips       == <<"c","h","i","p","s">>
burger      == <<"b","u","r","g","e","r">>
dessert     == <<"d","e","s","s","e","r","t">>
Quinoa      == <<"Q","u","i","n","o","a">>

\* the labels the classifier emits in the model
Catalogue == {pizza, salad, soda, fries, Quinoa}

\* the confidences the classifier emits in the model (1/10000)
ScoreSet == {1234, 2000, 5500, 9100}

-----------------------------------------------------------------------------
(* Backend: lookup_nutrition *)

Profile(cal, pro, carb, fat, fib, sat, sug) ==
    [calories |-> cal, protein_g |-> pro, carbs_g |-> carb, fat_g |-> fat,
     fiber_g |-> fib, sat_fat_g |-> sat, added_sugar_g |-> sug]

Fields == {"calories", "protein_g", "carbs_g", "fat_g", "fiber_g", "sat_fat_g", "added_sugar_g"}

\* labels_map = {"fries": "french fries", "cola": "soda"}
labels_map == [k \in {fries, cola} |-> IF k = fries THEN frenchFries ELSE soda]

\* the in-memory table of lookup_nutrition
table ==
    [k \in {pizza, salad, soda, frenchFries} |->
        CASE k = pizza       -> Profile(285, 12, 36, 10, 2, 4, 2)
          [] k = salad       -> Profile(150, 4, 10, 10, 3, 2, 1)
          [] k = soda        -> Profile(150, 0, 39, 0, 0, 0, 39)
          [] k = frenchFries -> Profile(365, 4, 48, 17, 4, 3, 0)]

\* the default of table.get(canonical, {...})
GenericProfile == Profile(250, 6, 30, 9, 2, 2, 2)

\* dict.get(key, default)
DictGet(d, key, default) == IF key \in DOMAIN d THEN d[key] ELSE default

\* lookup_nutrition with table[canonical] in place of table.get: a label
\* missing from the table raises KeyError
lookup_nutrition_KeyError(name) ==
    LET canonical == Lower(DictGet(labels_map, name, name))
    IN  IF canonical \in DOMAIN table
        THEN [raised |-> "none", nut |-> table[canonical]]
        ELSE [raised |-> "KeyError", nut |-> GenericProfile]

lookup_nutrition(name) ==
    LET canonical == Lower(DictGet(labels_map, name, name))
    IN  [raised |-> "none", nut |-> DictGet(table, canonical, GenericProfile)]

-----------------------------------------------------------------------------
(* Backend: health_score, the multi-label heuristic, the tips, analyze *)

Max(a, b) == IF a >= b THEN a ELSE b
Min(a, b) == IF a <= b THEN a ELSE b

\* Python round(n / unit): to the nearest integer, a tie to the even one
PyRound(n, unit) ==
    LET q == n \div unit
        r == n % unit
    IN  IF 2 * r < unit THEN q
        ELSE IF 2 * r > unit THEN q + 1
        ELSE IF q % 2 = 0 THEN q ELSE q + 1

\* health_score(total): total in whole units, the raw score in 1/100
health_score(total) ==
    LET cal == total.calories
        sat == total.sat_fat_g
        sug == total.added_sugar_g
        fib == total.fiber_g
        pro == total.protein_g
        score == 10000 - 2 * Max(0, cal - 500) - 120 * sat - 20 * sug + 80 * fib + 50 * pro
    IN  Max(0, Min(100, PyRound(score, 100)))

\* s[:n]
Take(s, n) == SubSeq(s, 1, Min(n, Len(s)))

\* the heuristic with the relative threshold left out
KeptOf_FloorOnly(ps) ==
    LET keep(p) == 10 * p.score >= 15000
    IN  Take(SelectSeq(ps, keep), 3)

\* the heuristic keeping the last 3 of the qualifying predictions
KeptOf_LastThree(ps) ==
    LET p_main == ps[1].score
        keep(p) == 10 * p.score >= Max(15000, 6 * p_main)
        all == SelectSeq(ps, keep)
    IN  SubSeq(all, Max(1, Len(all) - 2), Len(all))

\* [p for p in preds if p["score"] >= max(0.15, p_main*0.6)][:3]
\* (p_main is the score of preds[0]; the caller has checked that it exists)
KeptOf(ps) ==
    LET p_main == ps[1].score
        keep(p) == 10 * p.score >= Max(15000, 6 * p_main)
    IN  Take(SelectSeq(ps, keep), 3)

\* the loop over kept looking the label up as the classifier spells it
ItemOf_RawLabel(p) ==
    LET name == p.label
    IN  [label |-> name,
         confidence |-> 10 * PyRound(p.score, 10),
         servings |-> 100,
         nutrition |-> lookup_nutrition(name).nut]

\* the items list built by the loop over kept
ItemOf(p) ==
    LET name == Lower(p.label)
    IN  [label |-> name,
         confidence |-> 10 * PyRound(p.score, 10),
         servings |-> 100,
         nutrition |-> lookup_nutrition(name).nut]

ZeroTotals == [f \in Fields |-> 0]

\* totals[k] += nut.get(k, 0), over the kept items in order
RECURSIVE TotalsOf(_)
TotalsOf(items) ==
    IF items = <<>> THEN ZeroTotals
    ELSE LET rest == TotalsOf(SubSeq(items, 1, Len(items) - 1))
             nut == items[Len(items)].nutrition
         IN  [f \in Fields |-> rest[f] + nut[f]]

SugarTip == "Swap sugary drinks for water or unsweetened tea."
FiberTip == "Add veggies or whole grains to increase fiber."
ProteinTip == "Add a lean protein for satiety."

\* the tip rules with the sugar tip only above 20 g
TipsOf_SugarAbove(totals, unit) ==
    (IF totals.added_sugar_g > 20 * unit THEN <<SugarTip>> ELSE <<>>)
    \o (IF totals.fiber_g < 5 * unit THEN <<FiberTip>> ELSE <<>>)
    \o (IF totals.protein_g < 15 * unit THEN <<ProteinTip>> ELSE <<>>)

\* the three tip rules of analyze; `unit` is the scale of the totals given
TipsOf(totals, unit) ==
    (IF totals.added_sugar_g >= 20 * unit THEN <<SugarTip>> ELSE <<>>)
    \o (IF totals.fiber_g < 5 * unit THEN <<FiberTip>> ELSE <<>>)
    \o (IF totals.protein_g < 15 * unit THEN <<ProteinTip>> ELSE <<>>)

\* an exception that leaves analyze: FastAPI answers 500 and no body
Raised(exc) == [status |-> 500, raised |-> exc, body |-> <<>>]

\* POST /analyze from the classifier's output on
analyze(clfOut) ==
    LET ps == Take(clfOut, 5)
    IN  IF ps = <<>> THEN Raised("IndexError")
        ELSE LET kept == KeptOf(ps)
                 looked == [k \in 1..Len(kept) |-> lookup_nutrition(Lower(kept[k].label))]
             IN  IF \E k \in 1..Len(kept) : looked[k].raised # "none"
                 THEN Raised(looked[CHOOSE k \in 1..Len(kept) : looked[k].raised # "none"].raised)
                 ELSE LET items == [k \in 1..Len(kept) |-> ItemOf(kept[k])]
                          totals == TotalsOf(items)
                      IN  [status |-> 200, raised |-> "none",
                           body |-> <<[total_calories |-> totals.calories,
                                       health_score |-> health_score(totals),
                                       items |-> items,
                                       tips |-> TipsOf(totals, 1)]>>]

-----------------------------------------------------------------------------
(* Client: ResultCard *)

\* the initializer of useState: initial[index] = result.items[index].servings
\* (indices are 1-based in the model, 0-based in the program)
SeedServings(res) == [k \in 1..Len(res.items) |-> res.items[k].servings]

\* the clamp with its upper end left out
Clamp_NoUpperEnd(newServing) == Max(25, newServing)

\* Math.max(0.25, Math.min(5, newServing))
Clamp(newServing) == Max(25, Min(500, newServing))

\* servingAdjustments[index] || item.servings
Multiplier(items, sa, k) == IF sa[k] # 0 THEN sa[k] ELSE items[k].servings

\* the reduce reading every multiplier from the result and not from the state
RECURSIVE adjustedNutrition_SeedServings(_, _)
adjustedNutrition_SeedServings(items, sa) ==
    IF items = <<>> THEN ZeroTotals
    ELSE LET n == Len(items)
             total == adjustedNutrition_SeedServings(SubSeq(items, 1, n - 1),
                                                     SubSeq(sa, 1, n - 1))
         IN  [f \in Fields |-> total[f] + items[n].nutrition[f] * items[n].servings]

\* the reduce returning the item's share without the accumulator
adjustedNutrition_LastItem(items, sa) ==
    IF items = <<>> THEN ZeroTotals
    ELSE LET n == Len(items)
         IN  [f \in Fields |-> items[n].nutrition[f] * Multiplier(items, sa, n)]

\* the reduce rounding every product to a whole unit before adding it
RECURSIVE adjustedNutrition_RoundedProducts(_, _)
adjustedNutrition_RoundedProducts(items, sa) ==
    IF items = <<>> THEN ZeroTotals
    ELSE LET n == Len(items)
             total == adjustedNutrition_RoundedProducts(SubSeq(items, 1, n - 1),
                                                        SubSeq(sa, 1, n - 1))
             servingMultiplier == Multiplier(items, sa, n)
         IN  [f \in Fields |->
                 total[f] + 100 * ((2 * items[n].nutrition[f] * servingMultiplier + 100)
                                   \div 200)]

\* adjustedNutrition: the reduce over result.items, totals in 1/100
RECURSIVE adjustedNutrition(_, _)
adjustedNutrition(items, sa) ==
    IF items = <<>> THEN ZeroTotals
    ELSE LET n == Len(items)
             total == adjustedNutrition(SubSeq(items, 1, n - 1), SubSeq(sa, 1, n - 1))
             servingMultiplier == Multiplier(items, sa, n)
         IN  [f \in Fields |-> total[f] + items[n].nutrition[f] * servingMultiplier]

\* the if / else-if chain of caution penalties, per serving
Penalty(item) ==
    LET label == Lower(item.label)
    IN  IF Includes(label, soda) \/ Includes(label, cola) THEN 10
        ELSE IF Includes(label, fries) \/ Includes(label, chips) THEN 8
        ELSE IF Includes(label, burger) THEN 5
        ELSE IF Includes(label, pizza) THEN 3
        ELSE IF Includes(label, dessert) THEN 7
        ELSE 0

\* the penalties not scaled by the serving multiplier
RECURSIVE PenaltySum_Unscaled(_, _)
PenaltySum_Unscaled(items, sa) ==
    IF items = <<>> THEN 0
    ELSE LET n == Len(items)
         IN  PenaltySum_Unscaled(SubSeq(items, 1, n - 1), SubSeq(sa, 1, n - 1))
             + 10000 * Penalty(items[n])

\* the forEach that subtracts the penalties, in 1/10000
RECURSIVE PenaltySum(_, _)
PenaltySum(items, sa) ==
    IF items = <<>> THEN 0
    ELSE LET n == Len(items)
         IN  PenaltySum(SubSeq(items, 1, n - 1), SubSeq(sa, 1, n - 1))
             + 100 * Penalty(items[n]) * Multiplier(items, sa, n)

\* Math.round(n / unit): floor(x + 0.5)
JsRound(n, unit) == (2 * n + unit) \div (2 * unit)

\* the score rounded but not clamped to 0..100
adjustedHealthScore_Unclamped(items, sa) ==
    LET t == adjustedNutrition(items, sa)
        score == 1000000 - 2 * Max(0, t.calories - 50000) - 120 * t.sat_fat_g
                 - 20 * t.added_sugar_g + 80 * t.fiber_g + 50 * t.protein_g
                 - PenaltySum(items, sa)
    IN  JsRound(score, 10000)

\* adjustedHealthScore: the raw score in 1/10000
adjustedHealthScore(items, sa) ==
    LET t == adjustedNutrition(items, sa)
        score == 1000000 - 2 * Max(0, t.calories - 50000) - 120 * t.sat_fat_g
                 - 20 * t.added_sugar_g + 80 * t.fiber_g + 50 * t.protein_g
                 - PenaltySum(items, sa)
    IN  Max(0, Min(100, JsRound(score, 10000)))

\* what one render of ResultCard puts on the page
Render(res, sa) ==
    LET nutrition == adjustedNutrition(res.items, sa)
    IN  [circle |-> res.health_score,
         health_score |-> adjustedHealthScore(res.items, sa),
         total_calories |-> JsRound(nutrition.calories, 100),
         nutrition |-> nutrition,
         tips |-> res.tips]

-----------------------------------------------------------------------------
(* The classifier's outputs and the serving values of the model *)

\* the lists of k distinct labels out of `labels`
LabelLists(labels, k) ==
    {ls \in [1..k -> labels] : \A a, b \in 1..k : a < b => ls[a] # ls[b]}

\* confidences in descending order (ties allowed)
ScoreLists(scores, k) ==
    {sc \in [1..k -> scores] : \A a, b \in 1..k : a < b => sc[a] >= sc[b]}

\* the lists of up to MaxPreds predictions with distinct labels, ordered by
\* descending confidence, the empty list included
PredListsOver(labels, scores) ==
    UNION {{[j \in 1..k |-> [label |-> ls[j], score |-> sc[j]]] :
                ls \in LabelLists(labels, k), sc \in ScoreLists(scores, k)} :
           k \in 0..MaxPreds}

\* every list the classifier returns in the model of the pipeline
PredLists == PredListsOver(Catalogue, ScoreSet)

\* the confidences of the lists edited in the model of the result card: the
\* documented scenario's, and the same with a third food as likely as the second
AdjustScores == {<<9100, 5500, 2000>>, <<9100, 5500, 5500>>}

\* the lists whose results are edited in the model of the result card: the
\* foods of the documented scenario, in the scenario's order, any of them left out
AdjustLists ==
    {ps \in PredListsOver({pizza, salad, soda}, {2000, 5500, 9100}) :
        /\ \A a, b \in 1..Len(ps) :
               a < b => \/ ps[a].label = pizza
                        \/ ps[a].label = salad /\ ps[b].label = soda
        /\ \E sc \in AdjustScores : \A a \in 1..Len(ps) : ps[a].score = sc[a]}

\* the values handed to updateServing in the model (1/100): two below the
\* range, two inside it and one above it, so that 25 and 500 are stored only
\* by a write from outside the range
ServingInputs == {-50, 24, 100, 200, 501}

\* the lists whose results are edited in the model of the update queue: the
\* ones of AdjustLists without the salad
BatchLists == {ps \in AdjustLists : \A a \in 1..Len(ps) : ps[a].label # salad}

\* the values handed to updateServing in the model of the update queue: one
\* below the range, one inside it and one above it
BatchInputs == {24, 200, 501}

\* the lists sent to the backend in the model of the page's requests: up to
\* three foods, one of them unknown to the table, the empty list included
ClientLists == PredListsOver({pizza, soda, Quinoa}, {2000, 9100})

\* how many updaters may wait for one render in the model
MaxQueued == 2

\* no index has been written since ResultCard was mounted
NoWrites(n) == [last |-> [k \in 1..n |-> <<>>], applied |-> 0]

\* the updater written with the state of the last render in place of prev:
\* {...servingAdjustments, [itemIndex]: clamped}
Updater_FromRendered(prev, u) == [servingAdjustments EXCEPT ![u.itemIndex] = u.clamped]

\* the updater handed to setServingAdjustments:
\* prev => ({...prev, [itemIndex]: clamped})
Updater(prev, u) == [prev EXCEPT ![u.itemIndex] = u.clamped]

\* React applies the queued updaters in order, each to the result of the one before
RECURSIVE ApplyQueue(_, _)
ApplyQueue(prev, q) ==
    IF q = <<>> THEN prev ELSE ApplyQueue(Updater(prev, Head(q)), Tail(q))

-----------------------------------------------------------------------------
(* Operations *)

Init ==
    /\ phase = "idle"
    /\ preds = <<>>
    /\ calls = <<>>
    /\ response = <<>>
    /\ result = <<>>
    /\ servingAdjustments = <<>>
    /\ view = <<>>
    /\ replay = <<>>
    /\ queue = <<>>
    /\ writes = <<>>
    /\ earlier = FALSE
    /\ proxy = <<>>
    /\ scoring = <<>>
    /\ aliasing = <<>>
    /\ resolving = <<>>

\* a request of mutationFn
Call(to, outcome) == [to |-> to, outcome |-> outcome]

\* the requests that have not ended
InFlight(cs) == SelectSeq(cs, LAMBDA c : c.outcome = "waiting")

\* the last request ends
Ended(cs, outcome) == [cs EXCEPT ![Len(cs)].outcome = outcome]

\* an upload control that stays usable during an analysis
UploadEnabled_Always == TRUE

\* UploadCard can hand a file to handleFileSelect: it is rendered while there
\* is no result, and is disabled (and its remove button hidden) while the
\* mutation is pending
UploadEnabled == phase \in {"idle", "failed"}

\* page.tsx handleFileSelect: a file is chosen; the classifier's output for
\* it is fixed by the file. analyzeFood.mutate(file) starts mutationFn, which
\* sends the file to the backend
SelectFrom(lists) ==
    /\ UploadEnabled
    /\ \E ps \in lists : preds' = ps
    /\ phase' = "pending"
    /\ calls' = Append(InFlight(calls), Call("direct", "waiting"))
    /\ response' = <<>>
    /\ result' = <<>>
    /\ UNCHANGED <<servingAdjustments, view, replay, batch, apart>>

handleFileSelect == SelectFrom(PredLists)

handleFileSelectAdjust == SelectFrom(AdjustLists)

handleFileSelectBatch == SelectFrom(BatchLists)

handleFileSelectClient == SelectFrom(ClientLists)

\* response.ok
Outcome(answer) == IF answer.status = 200 THEN "ok" ELSE "http error"

\* a mutationFn that falls back to the proxy whenever the direct call fails
UsesProxy_OnAnyFailure(outcome) == outcome # "ok"

\* try { response = await fetch(`${API_URL}/analyze`) } catch { ... '/api/analyze' }
UsesProxy(outcome) == outcome = "threw"

\* the direct call ends: mutationFn goes on with its response, or sends the
\* file to the proxy route
DirectSettles(outcome, answer) ==
    /\ phase = "pending"
    /\ calls # <<>>
    /\ calls[Len(calls)] = Call("direct", "waiting")
    /\ IF UsesProxy(outcome)
       THEN /\ calls' = Append(Ended(calls, outcome), Call("proxy", "waiting"))
            /\ UNCHANGED <<phase, response>>
       ELSE /\ calls' = Ended(calls, outcome)
            /\ response' = answer
            /\ phase' = "answered"
    /\ UNCHANGED <<preds, result, servingAdjustments, view, replay, batch, apart>>

\* the backend handles POST /analyze
Analyze == DirectSettles(Outcome(analyze(preds)), <<analyze(preds)>>)

\* the direct call rejects: the backend cannot be reached from the browser
directThrows == DirectSettles("threw", <<>>)

\* what the proxy route makes of the backend's answer: the body of an OK
\* answer, else an error with the backend's status
ViaProxy(answer) ==
    IF answer.status = 200
    THEN [status |-> 200, raised |-> "none", body |-> answer.body]
    ELSE [status |-> answer.status, raised |-> "none", body |-> <<>>]

\* the answers the proxy route can give for the file: the backend's, passed
\* on, or 503 or 500 of its own
ProxyAnswers ==
    {ViaProxy(analyze(preds))}
    \cup {[status |-> st, raised |-> "none", body |-> <<>>] : st \in {500, 503}}

\* the proxy route answers the second call
proxyResponds ==
    /\ phase = "pending"
    /\ calls # <<>>
    /\ calls[Len(calls)] = Call("proxy", "waiting")
    /\ \E answer \in ProxyAnswers :
           /\ calls' = Ended(calls, Outcome(answer))
           /\ response' = <<answer>>
    /\ phase' = "answered"
    /\ UNCHANGED <<preds, result, servingAdjustments, view, replay, batch, apart>>

\* the second call rejects as well: mutationFn throws, nothing catches it
proxyThrows ==
    /\ phase = "pending"
    /\ calls # <<>>
    /\ calls[Len(calls)] = Call("proxy", "waiting")
    /\ calls' = Ended(calls, "threw")
    /\ phase' = "failed"
    /\ UNCHANGED <<preds, response, result, servingAdjustments, view, replay, batch, apart>>

\* ResultCard useState(() => ...): the initializer runs when the card mounts
\* (nothing is rendered yet); a card that is already mounted keeps the state it
\* has, and reads `servingAdjustments[index] || item.servings` for each item
CardState(res) ==
    IF view = <<>>
    THEN SeedServings(res)
    ELSE [k \in 1..Len(res.items) |->
             IF k \in DOMAIN servingAdjustments
             THEN servingAdjustments[k]
             ELSE res.items[k].servings]

\* mutationFn returns and onSuccess runs: setResult(data); ResultCard mounts,
\* seeds servingAdjustments and renders
onSuccess ==
    /\ phase = "answered"
    /\ response[1].status = 200
    /\ result' = response[1].body
    /\ servingAdjustments' = CardState(response[1].body[1])
    /\ view' = <<Render(response[1].body[1], CardState(response[1].body[1]))>>
    /\ replay' = <<>>
    /\ queue' = <<>>
    /\ writes' = NoWrites(Len(response[1].body[1].items))
    /\ earlier' = earlier
    /\ phase' = "shown"
    /\ UNCHANGED <<preds, calls, response, apart>>

\* mutationFn throws on a response that is not ok
onError ==
    /\ phase = "answered"
    /\ response[1].status # 200
    /\ phase' = "failed"
    /\ UNCHANGED <<preds, calls, response, result, servingAdjustments, view, replay, batch, apart>>

\* updateServing keeping a running calorie total: the change of the edited
\* item, rounded, is added to the total on the page
UpdateServing_RunningTotal(itemIndex, newServing) ==
    LET clamped == Clamp(newServing)
        next == [servingAdjustments EXCEPT ![itemIndex] = clamped]
        item == result[1].items[itemIndex]
        change == item.nutrition.calories
                  * (clamped - Multiplier(result[1].items, servingAdjustments, itemIndex))
    IN  /\ servingAdjustments' = next
        /\ view' = <<[Render(result[1], next) EXCEPT
                         !.total_calories = view[1].total_calories + JsRound(change, 100)]>>

\* updateServing rebuilding the whole map from the result, the edited index apart
UpdateServing_ResetsOthers(itemIndex, newServing) ==
    LET clamped == Clamp(newServing)
        next == [k \in DOMAIN servingAdjustments |->
                    IF k = itemIndex THEN clamped ELSE result[1].items[k].servings]
    IN  /\ servingAdjustments' = next
        /\ view' = <<Render(result[1], next)>>

\* ResultCard updateServing(itemIndex, newServing), then the re-render
UpdateServingTo(itemIndex, newServing) ==
    LET clamped == Clamp(newServing)
        next == [servingAdjustments EXCEPT ![itemIndex] = clamped]
    IN  /\ servingAdjustments' = next
        /\ view' = <<Render(result[1], next)>>

\* the observer may note down the state it sees before an edit
Observe ==
    \/ replay' = replay
    \/ replay' = <<[servings |-> servingAdjustments, view |-> view[1]]>>

updateServing ==
    /\ phase = "shown"
    /\ \E itemIndex \in 1..Len(result[1].items), newServing \in ServingInputs :
           UpdateServingTo(itemIndex, newServing)
    /\ Observe
    /\ UNCHANGED <<phase, preds, calls, response, result, batch, apart>>

\* the observer: the result being left had a multiplier written
Written == writes # <<>> /\ \E k \in DOMAIN writes.last : writes.last[k] # <<>>

\* handleReset on a page that keeps the result card mounted while there is no
\* result: the card keeps its multipliers
handleReset_KeepsCard ==
    /\ phase \in {"shown", "failed"}
    /\ phase' = "idle"
    /\ result' = <<>>
    /\ preds' = <<>>
    /\ calls' = <<>>
    /\ response' = <<>>
    /\ replay' = <<>>
    /\ queue' = <<>>
    /\ writes' = <<>>
    /\ earlier' = (earlier \/ Written)
    /\ UNCHANGED <<servingAdjustments, view, apart>>

\* page.tsx handleReset: setResult(null) unmounts ResultCard, and its state goes
\* with it
handleReset ==
    /\ phase \in {"shown", "failed"}
    /\ phase' = "idle"
    /\ result' = <<>>
    /\ preds' = <<>>
    /\ calls' = <<>>
    /\ response' = <<>>
    /\ servingAdjustments' = <<>>
    /\ view' = <<>>
    /\ replay' = <<>>
    /\ queue' = <<>>
    /\ writes' = <<>>
    /\ earlier' = (earlier \/ Written)
    /\ UNCHANGED apart

\* two edits of the result card before one render: each call of updateServing
\* queues its updater, and the render applies the queue in the order of the calls
callUpdateServing ==
    /\ phase = "shown"
    /\ Len(queue) < MaxQueued
    /\ \E itemIndex \in 1..Len(result[1].items), newServing \in BatchInputs :
           /\ queue' = Append(queue, [itemIndex |-> itemIndex, clamped |-> Clamp(newServing)])
           /\ writes' = [writes EXCEPT !.last[itemIndex] = <<newServing>>]
    /\ UNCHANGED <<phase, preds, calls, response, result, servingAdjustments, view, replay,
                   earlier, apart>>

\* React re-renders ResultCard with the queued updaters applied
reRender ==
    /\ phase = "shown"
    /\ queue # <<>>
    /\ servingAdjustments' = ApplyQueue(servingAdjustments, queue)
    /\ view' = <<Render(result[1], ApplyQueue(servingAdjustments, queue))>>
    /\ queue' = <<>>
    /\ writes' = [writes EXCEPT !.applied = Len(queue)]
    /\ UNCHANGED <<phase, preds, calls, response, result, replay, earlier, apart>>

-----------------------------------------------------------------------------
(* The serving controls of an item: the - button, the slider, the + button *)

\* const currentServing = servingAdjustments[index] || item.servings
currentServing(index) ==
    IF servingAdjustments[index] # 0
    THEN servingAdjustments[index]
    ELSE result[1].items[index].servings

\* a - button taking a tenth of a serving off
DecrementTo_Tenth(cur) == cur - 10

\* currentServing - 0.25
DecrementTo(cur) == cur - 25

\* currentServing + 0.25
IncrementTo(cur) == cur + 25

\* the values of <input type="range" min="0.25" max="5" step="0.25">
SliderValues == {25 * k : k \in 1..20}

\* what an edit through a control leaves alone
ControlFrame == UNCHANGED <<phase, preds, calls, response, result, replay, batch, apart>>

\* the - button of one item: disabled={currentServing <= 0.25}
decrementItem(index) ==
    /\ phase = "shown"
    /\ ~(currentServing(index) <= 25)
    /\ UpdateServingTo(index, DecrementTo(currentServing(index)))
    /\ ControlFrame

\* the + button of one item: disabled={currentServing >= 5}
incrementItem(index) ==
    /\ phase = "shown"
    /\ ~(currentServing(index) >= 500)
    /\ UpdateServingTo(index, IncrementTo(currentServing(index)))
    /\ ControlFrame

decrement == \E index \in DOMAIN servingAdjustments : decrementItem(index)

increment == \E index \in DOMAIN servingAdjustments : incrementItem(index)

\* the slider of one item: onChange -> updateServing(index, parseFloat(e.target.value))
slide ==
    /\ phase = "shown"
    /\ \E index \in DOMAIN servingAdjustments, value \in SliderValues :
           UpdateServingTo(index, value)
    /\ ControlFrame

-----------------------------------------------------------------------------
(* The proxy route: web/app/api/analyze/route.ts *)

\* const allowedTypes
allowedTypes == {"image/jpeg", "image/png", "image/webp"}

\* const maxSize
maxSize == 8 * 1024 * 1024

\* the MIME types of the files posted in the model: the allowed ones, two
\* others and the empty type of a file the browser could not classify
PostedTypes == allowedTypes \cup {"image/gif", "application/pdf", ""}

\* the sizes of the files posted in the model, around the limit
PostedSizes == {0, 1, maxSize - 1, maxSize, maxSize + 1}

\* the requests posted in the model: a body request.formData() cannot read, a
\* form without an image field, a form whose image field is a text (its
\* .type is undefined) and a form whose image field is a file
ProxyRequests ==
    {[readable |-> FALSE, image |-> <<>>], [readable |-> TRUE, image |-> <<>>],
     [readable |-> TRUE, image |-> <<[type |-> "undefined", size |-> 0]>>]}
    \cup {[readable |-> TRUE, image |-> <<[type |-> t, size |-> n]>>] :
             t \in PostedTypes, n \in PostedSizes}

\* the bodies of the backend's responses in the model: two JSON documents,
\* and a body that is not JSON
BackendBodies == {<<"analysis A">>, <<"analysis B">>, <<>>}

\* the backend's responses to a forwarded request
BackendResponses == {[status |-> st, json |-> j] : st \in {200, 400, 500}, j \in BackendBodies}

\* what is thrown inside the try block: the runtime's errors are Error objects,
\* and their messages may or may not contain "fetch"
ThrownErrors == {[isError |-> TRUE, mentionsFetch |-> m] : m \in BOOLEAN}

\* the three checks with the size limit exclusive
Rejection_SizeExclusive(image) ==
    IF image = <<>> THEN "No image file provided"
    ELSE IF image[1].type \notin allowedTypes THEN "Unsupported file type"
    ELSE IF image[1].size >= maxSize THEN "File too large"
    ELSE "none"

\* the three checks of POST on the image field, in their order
Rejection(image) ==
    IF image = <<>> THEN "No image file provided"
    ELSE IF image[1].type \notin allowedTypes THEN "Unsupported file type"
    ELSE IF image[1].size > maxSize THEN "File too large"
    ELSE "none"

\* the catch block answering 500 whatever was thrown
Caught_Always500(error) == 500

\* the catch block: 503 for an Error whose message includes 'fetch', else 500
Caught(error) == IF error.isError /\ error.mentionsFetch THEN 503 ELSE 500

\* NextResponse.json(body, {status}): the answer of the proxy
Answer(p, status, body) ==
    <<[p EXCEPT !.stage = "answered", !.status = status, !.body = body]>>

\* an error is thrown inside the try block
Throw(p, error) == <<[p EXCEPT !.stage = "threw", !.thrown = <<error>>]>>

\* a request reaches POST
POST_receive ==
    /\ proxy = <<>>
    /\ \E req \in ProxyRequests :
           proxy' = <<[request |-> req, stage |-> "received", status |-> 0, forwarded |-> 0,
                       backend |-> <<>>, thrown |-> <<>>, body |-> <<>>]>>
    /\ UNCHANGED <<page, scoring, naming>>

\* POST up to its fetch: formData() rejects, or a check answers 400, or the
\* image is forwarded to the backend
POST_validate ==
    /\ proxy # <<>>
    /\ proxy[1].stage = "received"
    /\ LET req == proxy[1].request
       IN  IF ~req.readable
           THEN \E error \in ThrownErrors : proxy' = Throw(proxy[1], error)
           ELSE IF Rejection(req.image) # "none"
           THEN proxy' = Answer(proxy[1], 400, <<"error", Rejection(req.image)>>)
           ELSE proxy' = <<[proxy[1] EXCEPT !.stage = "forwarded", !.forwarded = 1]>>
    /\ UNCHANGED <<page, scoring, naming>>

\* POST after its fetch: fetch rejects; or a response that is not ok is passed
\* on with its status and its error text ('Unknown error' if it is not JSON);
\* or the JSON of an ok response is returned, and response.json() rejects if
\* the body is not JSON
POST_backend ==
    /\ proxy # <<>>
    /\ proxy[1].stage = "forwarded"
    /\ \/ \E error \in ThrownErrors : proxy' = Throw(proxy[1], error)
       \/ \E answered \in BackendResponses :
              LET p == [proxy[1] EXCEPT !.backend = <<answered>>]
              IN  IF answered.status # 200
                  THEN proxy' = Answer(p, answered.status, <<"error", "from the backend">>)
                  ELSE IF answered.json = <<>>
                  THEN \E error \in ThrownErrors : proxy' = Throw(p, error)
                  ELSE proxy' = Answer(p, 200, <<"json", answered.json[1]>>)
    /\ UNCHANGED <<page, scoring, naming>>

\* the catch block
POST_catch ==
    /\ proxy # <<>>
    /\ proxy[1].stage = "threw"
    /\ proxy' = Answer(proxy[1], Caught(proxy[1].thrown[1]), <<"error", "from the proxy">>)
    /\ UNCHANGED <<page, scoring, naming>>

\* the answer is sent; the route is ready for the next request
POST_return ==
    /\ proxy # <<>>
    /\ proxy[1].stage = "answered"
    /\ proxy' = <<>>
    /\ UNCHANGED <<page, scoring, naming>>

NextProxy ==
    \/ POST_receive
    \/ POST_validate
    \/ POST_backend
    \/ POST_catch
    \/ POST_return

SpecProxy == Init /\ [][NextProxy]_vars

-----------------------------------------------------------------------------
(* The score and tip rules on nutrition totals of any meal *)

\* the totals handed to the rules in the model: calories below and above 500,
\* sugar, fiber and protein around the tip thresholds, and values that put
\* the raw score halfway between two integers
ScoredTotals ==
    {Profile(cal, pro, 0, 0, fib, sat, sug) :
        cal \in {400, 525}, pro \in {1, 14, 15, 16}, fib \in {4, 5, 6},
        sat \in {0, 30}, sug \in {19, 20, 21}}

\* a meal of one item with the given nutrition, at 1.0 serving
MealOf(total) ==
    <<[label |-> salad, confidence |-> 9100, servings |-> 100, nutrition |-> total]>>

InitTotals ==
    /\ phase = "idle"
    /\ preds = <<>>
    /\ calls = <<>>
    /\ response = <<>>
    /\ result = <<>>
    /\ servingAdjustments = <<>>
    /\ view = <<>>
    /\ replay = <<>>
    /\ queue = <<>>
    /\ writes = <<>>
    /\ earlier = FALSE
    /\ proxy = <<>>
    /\ scoring \in {<<[total |-> t, scored |-> <<>>]>> : t \in ScoredTotals}
    /\ aliasing = <<>>
    /\ resolving = <<>>

\* the backend scores the totals and picks the tips; the result card scores
\* the same meal
scoreTotals ==
    /\ scoring[1].scored = <<>>
    /\ LET total == scoring[1].total
       IN  scoring' = <<[total |-> total,
                         scored |-> <<[health_score |-> health_score(total),
                                       adjustedHealthScore |->
                                           adjustedHealthScore(MealOf(total),
                                                               SeedServings([items |-> MealOf(total)])),
                                       tips |-> TipsOf(total, 1)]>>]>>
    /\ UNCHANGED <<page, proxy, naming>>

NextTotals == scoreTotals

SpecTotals == InitTotals /\ [][NextTotals]_vars

-----------------------------------------------------------------------------
(* Canonical resolver: the backend's resolution of two raw labels *)

Pizza       == <<"P","i","z","z","a">>
PIZZA       == <<"P","I","Z","Z","A">>
pizzaSpaced == <<" ","p","i","z","z","a"," ">>
Fries       == <<"F","r","i","e","s">>
Cola        == <<"C","o","l","a">>
sodaSpaced  == <<"s","o","d","a"," ">>

\* the spellings of a label the resolver is given in the model
RawLabels == {pizza, Pizza, PIZZA, pizzaSpaced, fries, Fries, frenchFries,
              soda, sodaSpaced, cola, Cola, chips}

InitResolve ==
    /\ phase = "idle"
    /\ preds = <<>>
    /\ calls = <<>>
    /\ response = <<>>
    /\ result = <<>>
    /\ servingAdjustments = <<>>
    /\ view = <<>>
    /\ replay = <<>>
    /\ queue = <<>>
    /\ writes = <<>>
    /\ earlier = FALSE
    /\ proxy = <<>>
    /\ scoring = <<>>
    /\ aliasing = <<>>
    /\ resolving \in {<<[labels |-> <<a, b>>, items |-> <<>>]>> : a, b \in RawLabels}

\* the loop of analyze over two kept predictions
resolve ==
    /\ resolving # <<>>
    /\ resolving[1].items = <<>>
    /\ resolving' = <<[resolving[1] EXCEPT
                          !.items = <<[k \in 1..2 |->
                                          ItemOf([label |-> resolving[1].labels[k],
                                                  score |-> 9100])]>>]>>
    /\ UNCHANGED <<page, proxy, scoring, aliasing>>

NextResolve == resolve

SpecResolve == InitResolve /\ [][NextResolve]_vars

-----------------------------------------------------------------------------
(* Canonical resolver: the choice among regional cuisine mappings *)

chinese  == <<"c","h","i","n","e","s","e">>
indian   == <<"i","n","d","i","a","n">>
japanese == <<"j","a","p","a","n","e","s","e">>
mexican  == <<"m","e","x","i","c","a","n">>
noodles  == <<"n","o","o","d","l","e","s">>
ramen    == <<"r","a","m","e","n">>
curry    == <<"c","u","r","r","y">>

AliasMapping(cuisine, label, canonical, boost) ==
    [cuisineContext |-> cuisine, rawLabel |-> label, canonicalName |-> canonical,
     confidenceBoost |-> boost]

\* confidence_boost values of the seeds (1/100)
Boosts == {5, 10}

\* the rows of the store in the model: one label mapped under three cuisines,
\* with every combination of boosts, and one label mapped under one cuisine
AliasRowSets ==
    {{AliasMapping(chinese, noodles, noodles, c),
      AliasMapping(japanese, noodles, ramen, j),
      AliasMapping(indian, noodles, curry, i),
      AliasMapping(indian, curry, curry, 10)} : c \in Boosts, j \in Boosts, i \in Boosts}

\* the orders the store can return a set of rows in
Orders(rows) ==
    {q \in [1..Cardinality(rows) -> rows] : \A a, b \in DOMAIN q : a # b => q[a] # q[b]}

\* the labels looked up, and the cuisine contexts they are looked up with
AliasLabels == {noodles, curry, pizza}
CuisineContexts == {<<>>, <<chinese>>, <<japanese>>, <<mexican>>}

\* the position of a character in the order of strings
Rank(c) ==
    IF \E k \in 1..Len(LowerAlpha) : LowerAlpha[k] = c
    THEN CHOOSE k \in 1..Len(LowerAlpha) : LowerAlpha[k] = c
    ELSE 0

\* a < b for strings
RECURSIVE LexLess(_, _)
LexLess(a, b) ==
    IF a = <<>> THEN b # <<>>
    ELSE IF b = <<>> THEN FALSE
    ELSE IF a[1] = b[1] THEN LexLess(Tail(a), Tail(b))
    ELSE Rank(a[1]) < Rank(b[1])

\* the tie-break keeping the candidate met first among equal boosts
Better_BoostOnly(a, b) == a.confidenceBoost > b.confidenceBoost

\* the tie-break rule: the higher boost, then the lexically smaller cuisine
Better(a, b) ==
    \/ a.confidenceBoost > b.confidenceBoost
    \/ /\ a.confidenceBoost = b.confidenceBoost
       /\ LexLess(a.cuisineContext, b.cuisineContext)

\* the pick among the candidates, taken in the order the store returned them
RECURSIVE Pick(_, _)
Pick(best, rest) ==
    IF rest = <<>> THEN best
    ELSE Pick(IF Better(rest[1], best) THEN rest[1] ELSE best, Tail(rest))

\* lookupAliases(rawLabel, cuisineContext?) of the store
lookupAliasesOf(store, label, context) ==
    LET matches(m) == /\ m.rawLabel = label
                      /\ context # <<>> => m.cuisineContext = context[1]
    IN  SelectSeq(store, matches)

InitAlias ==
    /\ phase = "idle"
    /\ preds = <<>>
    /\ calls = <<>>
    /\ response = <<>>
    /\ result = <<>>
    /\ servingAdjustments = <<>>
    /\ view = <<>>
    /\ replay = <<>>
    /\ queue = <<>>
    /\ writes = <<>>
    /\ earlier = FALSE
    /\ proxy = <<>>
    /\ scoring = <<>>
    /\ resolving = <<>>
    /\ \E rows \in AliasRowSets, label \in AliasLabels, context \in CuisineContexts :
           aliasing \in {<<[store |-> q, label |-> label, context |-> context,
                            stage |-> "asked", candidates |-> <<>>, chosen |-> <<>>]>> :
                         q \in Orders(rows)}

\* steps 2 and 3: the mappings of the cuisine context if there are any, else
\* the mappings of any cuisine
lookupAliases ==
    /\ aliasing # <<>>
    /\ aliasing[1].stage = "asked"
    /\ LET a == aliasing[1]
           scoped == lookupAliasesOf(a.store, a.label, a.context)
           found == IF scoped # <<>> THEN scoped ELSE lookupAliasesOf(a.store, a.label, <<>>)
       IN  aliasing' = <<[a EXCEPT !.stage = "found", !.candidates = found]>>
    /\ UNCHANGED <<page, proxy, scoring, resolving>>

\* the candidate that remains
selectAlias ==
    /\ aliasing # <<>>
    /\ aliasing[1].stage = "found"
    /\ LET a == aliasing[1]
       IN  aliasing' = <<[a EXCEPT
                             !.stage = "selected",
                             !.chosen = IF a.candidates = <<>>
                                        THEN <<>>
                                        ELSE <<Pick(a.candidates[1], Tail(a.candidates))>>]>>
    /\ UNCHANGED <<page, proxy, scoring, resolving>>

NextAlias ==
    \/ lookupAliases
    \/ selectAlias

SpecAlias == InitAlias /\ [][NextAlias]_vars

-----------------------------------------------------------------------------

\* the pipeline: every classifier output, analysed and shown
Next ==
    \/ handleFileSelect
    \/ Analyze
    \/ onSuccess
    \/ onError
    \/ handleReset

Spec == Init /\ [][Next]_vars

\* the result card: the scenario's foods, analysed, shown and edited
NextAdjust ==
    \/ handleFileSelectAdjust
    \/ Analyze
    \/ onSuccess
    \/ onError
    \/ updateServing
    \/ handleReset

SpecAdjust == Init /\ [][NextAdjust]_vars

\* the result card with its update queue: edits are queued and rendered
NextBatch ==
    \/ handleFileSelectBatch
    \/ Analyze
    \/ onSuccess
    \/ onError
    \/ callUpdateServing
    \/ reRender
    \/ handleReset

SpecBatch == Init /\ [][NextBatch]_vars

\* the result card edited through its controls only
NextControls ==
    \/ handleFileSelectBatch
    \/ Analyze
    \/ onSuccess
    \/ onError
    \/ decrement
    \/ increment
    \/ slide
    \/ handleReset

SpecControls == Init /\ [][NextControls]_vars

\* the page and its two ways to the backend
NextClient ==
    \/ handleFileSelectClient
    \/ Analyze
    \/ directThrows
    \/ proxyResponds
    \/ proxyThrows
    \/ onSuccess
    \/ onError
    \/ handleReset

SpecClient == Init /\ [][NextClient]_vars

-----------------------------------------------------------------------------
(* Label Filter *)

\* the backend has answered the request for the selected file
Answered == phase \in {"answered", "shown", "failed"}

\* C1: for every non-empty prediction list in descending order of confidence
\* (a top confidence below 0.15 included) the backend answers with at least 1
\* and at most 3 items, and the first item is the top prediction.
C1_KeepsOneToThreeWithTop ==
    (Answered /\ preds # <<>>) =>
        /\ response[1].status = 200
        /\ Len(response[1].body[1].items) \in 1..3
        /\ response[1].body[1].items[1].label = Lower(preds[1].label)

\* C8: an empty prediction list makes the backend fail with NoDetectionError,
\* with no items and no AnalysisResult.
C8_EmptyListIsNoDetectionError ==
    (Answered /\ preds = <<>>) =>
        /\ response[1].raised = "NoDetectionError"
        /\ response[1].body = <<>>

-----------------------------------------------------------------------------
(* Canonical resolution *)

\* a label with no synonym and no row of its own in the nutrition table
Unresolved(label) == label \notin DOMAIN labels_map /\ label \notin DOMAIN table

IsProfile(nut) == DOMAIN nut = Fields /\ \A f \in Fields : nut[f] \in Nat

\* C7: resolution is total: whatever the labels, the backend raises nothing
\* while resolving them, every item carries a nutrition profile, and an item
\* whose label is unresolved carries the generic fallback profile.
C7_ResolutionIsTotal ==
    (Answered /\ preds # <<>>) =>
        /\ response[1].raised = "none"
        /\ \A k \in 1..Len(response[1].body[1].items) :
               LET item == response[1].body[1].items[k]
               IN  /\ IsProfile(item.nutrition)
                   /\ Unresolved(item.label) =>
                          item.nutrition = Profile(250, 6, 30, 9, 2, 2, 2)

\* an unresolved label was kept and its item is on the page
C7_Witness ==
    /\ phase = "shown"
    /\ \E k \in 1..Len(result[1].items) :
           /\ Unresolved(result[1].items[k].label)
           /\ result[1].items[k].nutrition = Profile(250, 6, 30, 9, 2, 2, 2)

-----------------------------------------------------------------------------
(* Server score against client score *)

\* C6: with every multiplier at its initial value, the health score the
\* backend returns equals the health score the result card computes for the
\* same items.
C6_ServerScoreIsClientScore ==
    (phase = "shown" /\ servingAdjustments = SeedServings(result[1])) =>
        result[1].health_score = view[1].health_score

-----------------------------------------------------------------------------
(* The documented scenarios *)

ScenarioPreds ==
    <<[label |-> pizza, score |-> 9100],
      [label |-> salad, score |-> 5500],
      [label |-> soda, score |-> 2000]>>

Labels(items) == [k \in 1..Len(items) |-> items[k].label]

\* C9: the pipeline on [(pizza,0.91),(salad,0.55),(soda,0.20)] yields the two
\* items pizza and salad, 435 total calories, health score 100 and no tips,
\* in the backend's answer and on the page.
C9_ScenarioResult ==
    (phase = "shown" /\ preds = ScenarioPreds) =>
        /\ Labels(result[1].items) = <<pizza, salad>>
        /\ result[1].total_calories = 435
        /\ result[1].health_score = 100
        /\ result[1].tips = <<>>
        /\ view[1].total_calories = 435
        /\ view[1].health_score = 100
        /\ view[1].tips = <<>>

\* the scenario's result is on the page
C9_Witness ==
    /\ phase = "shown"
    /\ preds = ScenarioPreds
    /\ servingAdjustments = <<100, 100>>

-----------------------------------------------------------------------------
(* Serving Adjuster *)

Edited == phase = "shown" /\ servingAdjustments # SeedServings(result[1])

\* C2: after seeding and after every edit and recompute, each health score
\* exposed (the backend's and the recomputed one) is an integer in 0..100.
C2_HealthScoreInRange ==
    /\ Answered /\ response[1].status = 200 => response[1].body[1].health_score \in 0..100
    /\ phase = "shown" => view[1].health_score \in 0..100 /\ view[1].circle \in 0..100

\* an edit has driven the raw score below 0 and the score shown is 0
C2_Witness ==
    /\ Edited
    /\ view[1].health_score = 0
    /\ adjustedHealthScore_Unclamped(result[1].items, servingAdjustments) < 0

\* the value Math.max(0.25, Math.min(5, v)) is documented to store
Stored(v) == IF v < 25 THEN 25 ELSE IF v > 500 THEN 500 ELSE v

InRange == phase = "shown" => \A k \in DOMAIN servingAdjustments :
                                  servingAdjustments[k] \in 25..500

\* C3: every step leaves every multiplier in [0.25, 5] (the seeding included),
\* and a step that is the call updateServing(k, v) stores v itself when v is in
\* the range, 0.25 when v is below it and 5 when v is above it, for every v
\* (no write is refused).
C3_ClampedOnWrite ==
    [][/\ InRange'
       /\ \A k \in 1..3, v \in ServingInputs :
              (phase = "shown" /\ k \in DOMAIN servingAdjustments
                 /\ UpdateServingTo(k, v))
              => servingAdjustments'[k] = Stored(v)]_vars

\* writes from below and from above the range have been stored as 0.25 and 5
C3_Witness ==
    /\ phase = "shown"
    /\ \E k \in DOMAIN servingAdjustments : servingAdjustments[k] = 25
    /\ \E k \in DOMAIN servingAdjustments : servingAdjustments[k] = 500

\* C4: the page is a function of the multiplier vector alone: whenever the
\* multipliers equal the ones of an earlier state of the same result, however
\* many edits lie between, the page shows what it showed then.
C4_SameMultipliersSameResult ==
    (phase = "shown" /\ replay # <<>> /\ replay[1].servings = servingAdjustments)
        => view[1] = replay[1].view

\* an edited multiplier vector has been reached again after at least one edit
C4_Witness ==
    /\ Edited
    /\ replay # <<>>
    /\ replay[1].servings = servingAdjustments

\* C5: after every edit the tips on the page are the ones the tip rules give
\* for the aggregate nutrition under the current multipliers.
C5_TipsFollowMultipliers ==
    phase = "shown" => view[1].tips = TipsOf(view[1].nutrition, 100)

\* C10: from the pizza and salad result, with the pizza at 2.0 servings and
\* the salad at 1.0, the page shows 720 total calories and health score 96.
C10_PizzaTwoServings ==
    (phase = "shown" /\ Labels(result[1].items) = <<pizza, salad>>
       /\ servingAdjustments = <<200, 100>>)
        => view[1].total_calories = 720 /\ view[1].health_score = 96

\* the scenario's result with the pizza set to 2.0 servings
C10_Witness ==
    /\ phase = "shown"
    /\ preds = ScenarioPreds
    /\ servingAdjustments = <<200, 100>>
    /\ view[1].health_score = 96

-----------------------------------------------------------------------------
(* Aggregation *)

\* the sum, over the item indices in S, of per-serving field f times the
\* item's multiplier
RECURSIVE SumOfProducts(_, _, _, _)
SumOfProducts(items, sa, f, S) ==
    IF S = {} THEN 0
    ELSE LET k == CHOOSE x \in S : TRUE
         IN  items[k].nutrition[f] * sa[k] + SumOfProducts(items, sa, f, S \ {k})

\* C11: after seeding and after every edit, each aggregate field on the page
\* is the sum over the items of the per-serving field times the item's
\* current multiplier: nothing of an earlier aggregate is carried over.
C11_AggregateIsSumOfProducts ==
    phase = "shown" =>
        \A f \in Fields :
            view[1].nutrition[f]
                = SumOfProducts(result[1].items, servingAdjustments, f,
                                DOMAIN result[1].items)

\* both items of the scenario have been edited: 2.0 x 285 + 0.25 x 150 kcal
C11_Witness ==
    /\ phase = "shown"
    /\ preds = ScenarioPreds
    /\ servingAdjustments = <<200, 25>>
    /\ view[1].nutrition.calories = 60750

\* the orders in which n items can be listed
Perms(n) == {p \in [1..n -> 1..n] : \A a, b \in 1..n : a # b => p[a] # p[b]}

Permuted(s, p) == [k \in 1..Len(s) |-> s[p[k]]]

\* C12: listing the items (each with its multiplier) in any other order gives
\* the aggregate on the page, in every field.
C12_OrderIndependent ==
    phase = "shown" =>
        \A p \in Perms(Len(result[1].items)) :
            adjustedNutrition(Permuted(result[1].items, p),
                              Permuted(servingAdjustments, p)) = view[1].nutrition

\* three different foods on the page, each with a different multiplier
C12_Witness ==
    /\ phase = "shown"
    /\ Labels(result[1].items) = <<pizza, salad, soda>>
    /\ servingAdjustments = <<200, 25, 500>>

\* a sequence without its j-th element
Without(s, j) == SubSeq(s, 1, j - 1) \o SubSeq(s, j + 1, Len(s))

\* what item j adds to the aggregate: the aggregate less the aggregate of
\* the other items
Contribution(items, sa, j) ==
    LET all == adjustedNutrition(items, sa)
        rest == adjustedNutrition(Without(items, j), Without(sa, j))
    IN  [f \in Fields |-> all[f] - rest[f]]

\* the multipliers an item is rescaled to
ScaledTo == {25, 50, 100, 200, 400, 500}

\* C13: rescaling the multiplier of one item from s to m = k * s multiplies
\* what that item adds to every aggregate field by exactly k (stated without
\* division: new * s = old * m) and leaves what every other item adds as it was.
C13_LinearInMultiplier ==
    phase = "shown" =>
        \A i \in DOMAIN servingAdjustments, m \in ScaledTo :
            LET items == result[1].items
                scaled == [servingAdjustments EXCEPT ![i] = m]
            IN  \A j \in DOMAIN servingAdjustments :
                    LET old == Contribution(items, servingAdjustments, j)
                        new == Contribution(items, scaled, j)
                    IN  IF j = i
                        THEN \A f \in Fields : new[f] * servingAdjustments[i] = old[f] * m
                        ELSE new = old

\* the pizza's multiplier has been doubled and the salad's left alone: the
\* pizza adds 570 kcal, the salad 150
C13_Witness ==
    /\ phase = "shown"
    /\ preds = ScenarioPreds
    /\ servingAdjustments = <<200, 100>>
    /\ Contribution(result[1].items, servingAdjustments, 1).calories = 57000
    /\ Contribution(result[1].items, servingAdjustments, 2).calories = 15000

-----------------------------------------------------------------------------
(* Concurrent edits *)

\* C14: once the queued edits are rendered, each index holds the clamped
\* value of the last write made to that index, or its seed if it was never
\* written: a write to one index is never lost to, nor overwritten by, a write
\* to another index, also when both were issued before one render.
C14_LastWriteWinsPerIndex ==
    (phase = "shown" /\ queue = <<>>) =>
        \A k \in DOMAIN servingAdjustments :
            servingAdjustments[k] = IF writes.last[k] = <<>>
                                    THEN result[1].items[k].servings
                                    ELSE Stored(writes.last[k][1])

\* one render has applied two writes issued from the same rendered state, and
\* both indices hold a written value
C14_Witness ==
    /\ phase = "shown"
    /\ queue = <<>>
    /\ writes.applied = 2
    /\ servingAdjustments = <<500, 25>>
    /\ writes.last = <<(<<501>>), (<<24>>)>>

-----------------------------------------------------------------------------
(* Upload validation in the proxy route *)

\* the upload carries an image of an accepted type and of at most 8 MiB
Acceptable(req) ==
    /\ req.image # <<>>
    /\ req.image[1].type \in {"image/jpeg", "image/png", "image/webp"}
    /\ req.image[1].size <= 8388608

\* C15: once the proxy has looked at an upload, it has made a backend request
\* exactly if the image field is present, its type is image/jpeg, image/png or
\* image/webp and its size is at most 8 MiB (8388608 bytes accepted); every
\* other upload is answered 400 with no backend request.  (A body that cannot
\* be read as a form is no upload: it gets no backend request either, and the
\* handler's catch answers it.)
C15_ForwardsOnlyValidUploads ==
    (proxy # <<>> /\ proxy[1].stage # "received") =>
        LET req == proxy[1].request
        IN  /\ proxy[1].forwarded = 1 <=> (req.readable /\ Acceptable(req))
            /\ (req.readable /\ ~Acceptable(req)) =>
                   proxy[1].status = 400 /\ proxy[1].stage = "answered"

\* a webp image of exactly 8 MiB has been forwarded to the backend
C15_Witness ==
    /\ proxy # <<>>
    /\ proxy[1].request.image = <<[type |-> "image/webp", size |-> 8388608]>>
    /\ proxy[1].stage = "forwarded"
    /\ proxy[1].forwarded = 1

-----------------------------------------------------------------------------
(* Label Filter: which predictions are kept *)

\* the positions of the predictions whose confidence is at least 0.15 and at
\* least 0.6 times the first prediction's
Qualifying(ps) ==
    {k \in 1..Len(ps) : /\ ps[k].score >= 1500
                        /\ 10 * ps[k].score >= 6 * ps[1].score}

\* the j-th smallest element of a set of numbers
Nth(S, j) == CHOOSE k \in S : Cardinality({q \in S : q < k}) = j - 1

\* C16: the items of the backend's answer are exactly the first 3 (all of
\* them if fewer) of the predictions whose confidence is at least
\* max(0.15, 0.6 x the first confidence), in their original order: no
\* qualifying prediction is skipped in favour of a later one.
C16_FirstThreeQualifying ==
    (Answered /\ preds # <<>> /\ response[1].status = 200) =>
        LET items == response[1].body[1].items
            Q == Qualifying(preds)
        IN  /\ Len(items) = IF Cardinality(Q) < 3 THEN Cardinality(Q) ELSE 3
            /\ \A j \in 1..Len(items) :
                   /\ items[j].label = Lower(preds[Nth(Q, j)].label)
                   /\ items[j].confidence = 10 * PyRound(preds[Nth(Q, j)].score, 10)

\* four predictions qualify and the first three of them are on the page
C16_Witness ==
    /\ phase = "shown"
    /\ Len(preds) = 4
    /\ Qualifying(preds) = 1..4
    /\ preds[3].score > preds[4].score
    /\ Labels(result[1].items) = <<Lower(preds[1].label), Lower(preds[2].label),
                                   Lower(preds[3].label)>>

-----------------------------------------------------------------------------
(* Health score: formula, penalties, clamp *)

\* the caution categories in their order of priority, with their points
CautionList ==
    <<[words |-> {soda, cola}, points |-> 10],
      [words |-> {fries, chips}, points |-> 8],
      [words |-> {burger}, points |-> 5],
      [words |-> {pizza}, points |-> 3],
      [words |-> {dessert}, points |-> 7]>>

\* the categories a label matches: one of the words occurs in it, whatever the case
Matching(label) ==
    {c \in DOMAIN CautionList : \E w \in CautionList[c].words : Includes(Lower(label), w)}

\* the points of the first category the label matches, 0 if it matches none
CautionPenalty(label) ==
    IF Matching(label) = {} THEN 0
    ELSE CautionList[CHOOSE c \in Matching(label) : \A d \in Matching(label) : c <= d].points

\* the base formula on aggregate nutrition in 1/100, the result in 1/10000
BaseScore(nut) ==
    1000000 - 2 * (IF nut.calories > 50000 THEN nut.calories - 50000 ELSE 0)
            - 120 * nut.sat_fat_g - 20 * nut.added_sugar_g
            + 80 * nut.fiber_g + 50 * nut.protein_g

\* the nearest integer to x / 10000, a half going up
HalfUp(x) == (x + 5000) \div 10000

Clamp100(n) == IF n < 0 THEN 0 ELSE IF n > 100 THEN 100 ELSE n

\* the documented score of the items under the multipliers sa: the base
\* less the sum of the items' penalties, and only then clamped and rounded
DocumentedScore(items, sa) ==
    LET nut == [f \in Fields |-> SumOfProducts(items, sa, f, DOMAIN items)]
        pen == [k \in DOMAIN items |->
                   [nutrition |-> [f \in Fields |-> 100 * CautionPenalty(items[k].label)]]]
    IN  Clamp100(HalfUp(BaseScore(nut) - SumOfProducts(pen, sa, "calories", DOMAIN items)))

\* C17: each health score exposed is the base formula less the sum of the
\* items' caution penalties, clamped to 0..100 and rounded after the
\* penalties: the backend's score (every multiplier 1.0) and the score the
\* page recomputes under the current multipliers.
C17_ScoreIsBaseLessPenalties ==
    phase = "shown" =>
        /\ result[1].health_score = DocumentedScore(result[1].items, SeedServings(result[1]))
        /\ view[1].health_score = DocumentedScore(result[1].items, servingAdjustments)

\* C18: an item gets the penalty of the first category its label matches
\* (soda/cola 10, fries/chips 8, burger 5, pizza 3, dessert 7; none if it
\* matches none) times its multiplier: with a single item on the page, each
\* exposed score is the base less that one penalty, clamped and rounded.
C18_OnePenaltyPerItem ==
    (phase = "shown" /\ Len(result[1].items) = 1) =>
        LET item == result[1].items[1]
            Score(m) == Clamp100(HalfUp(BaseScore([f \in Fields |-> item.nutrition[f] * m])
                                        - 100 * CautionPenalty(item.label) * m))
        IN  /\ Penalty(item) = CautionPenalty(item.label)
            /\ result[1].health_score = Score(item.servings)
            /\ view[1].health_score = Score(servingAdjustments[1])

-----------------------------------------------------------------------------
(* Rounding of the score *)

Scored == scoring # <<>> /\ scoring[1].scored # <<>>

\* the raw score of the totals scored, in 1/10000 (the meal has no caution food)
RawScore == BaseScore([f \in Fields |-> 100 * scoring[1].total[f]])

\* C19: a raw score exactly halfway between two integers is rounded to the
\* higher one (62.5 to 63), by the backend's calculation as well as by the
\* result card's.
C19_HalfGoesUp ==
    (Scored /\ RawScore % 10000 = 5000) =>
        /\ scoring[1].scored[1].health_score = Clamp100(RawScore \div 10000 + 1)
        /\ scoring[1].scored[1].adjustedHealthScore = Clamp100(RawScore \div 10000 + 1)

-----------------------------------------------------------------------------
(* Tips *)

\* the place of a tip in the documented order
TipRank(tip) == IF tip = SugarTip THEN 1 ELSE IF tip = FiberTip THEN 2 ELSE 3

\* C20: the tips are exactly the ones whose condition holds on the totals:
\* the sugar tip iff added sugar >= 20 g, the fiber tip iff fiber < 5 g, the
\* protein tip iff protein < 15 g, each at most once, in that order, and
\* each whatever the other two.
C20_TipsAreTheOnesThatApply ==
    Scored =>
        LET total == scoring[1].total
            got == scoring[1].scored[1].tips
            has(tip) == \E a \in 1..Len(got) : got[a] = tip
        IN  /\ has(SugarTip) <=> total.added_sugar_g >= 20
            /\ has(FiberTip) <=> total.fiber_g < 5
            /\ has(ProteinTip) <=> total.protein_g < 15
            /\ \A a \in 1..Len(got) : got[a] \in {SugarTip, FiberTip, ProteinTip}
            /\ \A a, b \in 1..Len(got) : a < b => TipRank(got[a]) < TipRank(got[b])

\* the three boundaries at once: 20 g of sugar gives the sugar tip, 5 g of
\* fiber and 15 g of protein give none
C20_Witness ==
    /\ Scored
    /\ scoring[1].total.added_sugar_g = 20
    /\ scoring[1].total.fiber_g = 5
    /\ scoring[1].total.protein_g = 15
    /\ scoring[1].scored[1].tips = <<SugarTip>>

-----------------------------------------------------------------------------
(* What the page exposes after an edit *)

\* C21: after an edit, every health score and the total of calories on the
\* page are the ones of the current multipliers: the score in the circle, the
\* score in the heading and the calories; none is left over from the
\* initial analysis.
C21_NothingStaleExposed ==
    Edited =>
        /\ view[1].circle = DocumentedScore(result[1].items, servingAdjustments)
        /\ view[1].health_score = DocumentedScore(result[1].items, servingAdjustments)
        /\ view[1].total_calories * 100
               = 100 * ((SumOfProducts(result[1].items, servingAdjustments, "calories",
                                       DOMAIN result[1].items) + 50) \div 100)

\* the indices whose multiplier a step changes
Changed == {k \in DOMAIN servingAdjustments :
               k \notin DOMAIN servingAdjustments'
               \/ servingAdjustments'[k] # servingAdjustments[k]}

\* C22: an edit changes the multiplier of the index it is called with and
\* nothing else: the other multipliers, the number and order of the items
\* (1 to 3), their labels, confidences and per-serving nutrition stay, and the
\* result the backend returned is the same value as before.
C22_OnlyTheIndexChanges ==
    [][(phase = "shown" /\ phase' = "shown") =>
          /\ result' = result
          /\ response' = response
          /\ DOMAIN servingAdjustments' = DOMAIN servingAdjustments
          /\ Len(result[1].items) \in 1..3
          /\ \A k \in Changed :
                 /\ Changed = {k}
                 /\ \E v \in ServingInputs : servingAdjustments'[k] = Stored(v)]_vars

\* of three items, the second alone has been edited
C22_Witness ==
    /\ phase = "shown"
    /\ Labels(result[1].items) = <<pizza, salad, soda>>
    /\ servingAdjustments = <<100, 200, 100>>
    /\ SeedServings(result[1]) = <<100, 100, 100>>

-----------------------------------------------------------------------------
(* A new result starts from its own servings *)

\* C23: the multipliers belong to one analysis result: in every step that puts
\* a result on the page (after a reset, or after another file was selected),
\* every multiplier is the servings value of its item in that result, nothing
\* is queued, and the page shows what these multipliers give; no adjustment
\* made on an earlier result is carried over.
C23_NewResultStartsSeeded ==
    [][(phase # "shown" /\ phase' = "shown") =>
          /\ servingAdjustments' = SeedServings(result'[1])
          /\ \A k \in DOMAIN servingAdjustments' : servingAdjustments'[k] = 100
          /\ queue' = <<>>
          /\ view' = <<Render(result'[1], SeedServings(result'[1]))>>]_vars

C23_Witness ==
    /\ phase = "shown"
    /\ earlier
    /\ Len(result[1].items) = 2
    /\ writes = NoWrites(2)
    /\ servingAdjustments = <<100, 100>>

-----------------------------------------------------------------------------
(* Canonical resolver: alias tie-break, normalization, synonyms *)

\* the mappings a lookup is about, as a set: those of the cuisine context if
\* there are any, else those of any cuisine
CandidateSet(a) ==
    LET rows == {a.store[k] : k \in DOMAIN a.store}
        any == {m \in rows : m.rawLabel = a.label}
        scoped == {m \in any : a.context # <<>> /\ m.cuisineContext = a.context[1]}
    IN  IF scoped # {} THEN scoped ELSE any

\* C24: among the alias mappings that match a label the resolver selects one
\* with the highest confidenceBoost and, among these, the one of the lexically
\* smallest cuisineContext; the selection is a function of the set of rows,
\* whatever the order the store returns them in, so the same label and cuisine
\* context always give the same canonical name.
C24_AliasChoiceIgnoresStoreOrder ==
    (aliasing # <<>> /\ aliasing[1].stage = "selected") =>
        LET a == aliasing[1]
            cs == CandidateSet(a)
        IN  IF cs = {}
            THEN a.chosen = <<>>
            ELSE /\ a.chosen # <<>>
                 /\ a.chosen[1] \in cs
                 /\ \A o \in cs :
                        /\ o.confidenceBoost <= a.chosen[1].confidenceBoost
                        /\ o.confidenceBoost = a.chosen[1].confidenceBoost
                               => ~LexLess(o.cuisineContext, a.chosen[1].cuisineContext)

C24_Witness ==
    /\ aliasing # <<>>
    /\ aliasing[1].stage = "selected"
    /\ Len(aliasing[1].candidates) = 3
    /\ aliasing[1].candidates[1].cuisineContext = japanese
    /\ aliasing[1].candidates[1].confidenceBoost = 10
    /\ aliasing[1].candidates[2].cuisineContext = indian
    /\ aliasing[1].candidates[3].confidenceBoost = 10
    /\ aliasing[1].chosen = <<AliasMapping(chinese, noodles, noodles, 10)>>

\* str.strip() of surrounding spaces
Trim(s) ==
    LET inked == {k \in 1..Len(s) : s[k] # " "}
    IN  IF inked = {} THEN <<>>
        ELSE SubSeq(s, CHOOSE k \in inked : \A j \in inked : k <= j,
                       CHOOSE k \in inked : \A j \in inked : k >= j)

Resolved == resolving # <<>> /\ resolving[1].items # <<>>

\* C25 as stated: two labels that differ only in letter case or in leading and
\* trailing whitespace resolve to the same nutrition profile.
C25_SameUpToCaseAndSpace ==
    (Resolved /\ Trim(Lower(resolving[1].labels[1])) = Trim(Lower(resolving[1].labels[2]))) =>
        resolving[1].items[1][1].nutrition = resolving[1].items[1][2].nutrition

\* C25, amended: two labels that differ only in letter case resolve to the
\* same item label and the same nutrition profile (surrounding whitespace is
\* kept and makes a different label).
C25_SameUpToCase ==
    (Resolved /\ Lower(resolving[1].labels[1]) = Lower(resolving[1].labels[2])) =>
        /\ resolving[1].items[1][1].label = resolving[1].items[1][2].label
        /\ resolving[1].items[1][1].nutrition = resolving[1].items[1][2].nutrition

C25_Witness ==
    /\ Resolved
    /\ resolving[1].labels = <<Fries, fries>>
    /\ resolving[1].items[1][1].nutrition = table[frenchFries]
    /\ resolving[1].items[1][2].nutrition = table[frenchFries]

\* the synonym table as documented: "fries" -> "french fries", "soda" -> "cola"
DocumentedSynonyms == [k \in {fries, soda} |-> IF k = fries THEN frenchFries ELSE cola]

\* C26: a label that is a key of the synonym table is looked up under its
\* synonym: "fries" as "french fries" and "soda" as "cola"; the profile is the
\* store's profile of the substituted name when the store has it (and the
\* generic profile when it has not).
C26_SynonymsSubstituted ==
    Resolved =>
        \A k \in 1..2 :
            LET name == Lower(resolving[1].labels[k])
            IN  name \in DOMAIN DocumentedSynonyms =>
                    resolving[1].items[1][k].nutrition
                        = DictGet(table, DocumentedSynonyms[name], GenericProfile)

-----------------------------------------------------------------------------
(* The serving controls keep the multipliers on the grid *)

\* C28: seeded with 1.0 and edited through the - button, the + button and the
\* slider only, every multiplier is a multiple of 0.25 between 0.25 and 5; at
\* 0.25 the - button does nothing and at 5 the + button does nothing (they are
\* disabled), so the multiplier stays where it is.
C28_ControlsKeepTheGrid ==
    phase = "shown" =>
        \A k \in DOMAIN servingAdjustments :
            /\ servingAdjustments[k] \in 25..500
            /\ servingAdjustments[k] % 25 = 0
            /\ servingAdjustments[k] = 25 => ~ENABLED decrementItem(k)
            /\ servingAdjustments[k] = 500 => ~ENABLED incrementItem(k)

C28_Witness ==
    /\ phase = "shown"
    /\ servingAdjustments = <<25, 500>>

-----------------------------------------------------------------------------
(* The page's requests *)

\* C27: at most one analysis request is in flight per page: while an analysis
\* is pending the upload control is disabled, so no second analysis starts
\* before the first has succeeded or failed; and the result on the page is the
\* result of the file selected last.
C27_OneAnalysisAtATime ==
    /\ Len(InFlight(calls)) <= 1
    /\ phase \in {"pending", "answered"} => ~UploadEnabled
    /\ InFlight(calls) # <<>> => phase = "pending"
    /\ phase = "shown" => result = analyze(preds).body

C27_Witness ==
    /\ phase = "pending"
    /\ calls = <<Call("direct", "threw"), Call("proxy", "waiting")>>
    /\ Len(preds) = 3

\* C29: for one selected file the page calls the backend directly first and
\* the proxy route only if the direct call threw; a direct response that is not
\* OK is reported as an error and no proxy call is made; at most two requests
\* are made, and a result is set only if the last request made returned OK.
C29_ProxyOnlyAfterThrow ==
    /\ Len(calls) <= 2
    /\ calls # <<>> => calls[1].to = "direct"
    /\ Len(calls) = 2 => (calls[2].to = "proxy" /\ calls[1].outcome = "threw")
    /\ (calls # <<>> /\ calls[1].outcome = "http error") =>
           (Len(calls) = 1 /\ result = <<>> /\ phase \in {"answered", "failed"})
    /\ result # <<>> => (calls # <<>> /\ calls[Len(calls)].outcome = "ok")
    /\ phase \in {"pending", "answered", "shown"} => calls # <<>>

C29_Witness ==
    /\ phase = "shown"
    /\ calls = <<Call("direct", "threw"), Call("proxy", "ok")>>
    /\ result = analyze(preds).body

-----------------------------------------------------------------------------
(* The proxy route always answers *)

\* C30: POST of the proxy route always ends in a response and lets no
\* exception out: whatever is thrown is caught and answered, 503 if the
\* error's message mentions fetch and 500 otherwise; a failed validation is
\* answered 400; a backend response that is not OK is passed on with the
\* backend's status; and the backend's JSON body is returned, unchanged and
\* with status 200, exactly for an OK backend response.
C30_ProxyAlwaysAnswers ==
    proxy # <<>> =>
        LET p == proxy[1]
            ok == p.backend # <<>> /\ p.backend[1].status = 200
        IN  /\ p.stage \in {"received", "forwarded", "threw", "answered"}
            /\ p.stage = "received" => ENABLED POST_validate
            /\ p.stage = "forwarded" => ENABLED POST_backend
            /\ p.stage = "threw" => (p.thrown # <<>> /\ ENABLED POST_catch)
            /\ p.stage = "answered" =>
                   /\ p.status \in {200, 400, 500, 503}
                   /\ p.thrown # <<>> =>
                          /\ p.status = (IF p.thrown[1].mentionsFetch THEN 503 ELSE 500)
                          /\ p.body[1] = "error"
                   /\ (p.thrown = <<>> /\ p.forwarded = 0) =>
                          (p.status = 400 /\ p.body[1] = "error")
                   /\ (p.thrown = <<>> /\ p.forwarded = 1 /\ ~ok) =>
                          (p.status = p.backend[1].status /\ p.body[1] = "error")
                   /\ (p.thrown = <<>> /\ ok) =>
                          (p.status = 200 /\ p.body = <<"json", p.backend[1].json[1]>>)
                   /\ p.body[1] = "json" => (ok /\ p.thrown = <<>>)

\* the backend could not be reached: the catch block has answered 503
C30_Witness ==
    /\ proxy # <<>>
    /\ proxy[1].stage = "answered"
    /\ proxy[1].forwarded = 1
    /\ proxy[1].backend = <<>>
    /\ proxy[1].thrown = <<[isError |-> TRUE, mentionsFetch |-> TRUE]>>
    /\ proxy[1].status = 503

====
